---- MODULE Spec2Model ----
(***************************************************************************)
(* A model of scripts/scaffold.py (src/scaffold.py): the naming            *)
(* normalizer, the handler/backend stub generators, the query template     *)
(* builder with its loop annotation pass, and the class-located source     *)
(* splicer.  Texts are TLA+ strings; TLC evaluates Len, \o and SubSeq on   *)
(* strings, so every Python string operation the script uses is modelled   *)
(* character by character.                                                 *)
(***************************************************************************)
EXTENDS Integers, Sequences, FiniteSets, TLC

VARIABLES
    pc,                 \* position of the run
    err,                \* "" or the exception that aborted the run
    ident, snake, wire, \* naming: the identifier and its two conversions
    op,                 \* the operation model handed in by botocore
    func_in_responses,  \* text returned by get_function_in_responses
    func_in_models,     \* text returned by get_function_in_models
    template,           \* text returned by get_response_query_template
    replace_list,       \* list fields recorded by _get_subtree
    xml_body_lines,     \* serialized markup lines, mutated by the annotation loop
    ri,                 \* number of replace_list entries already applied
    fs,                 \* path -> file content
    fs0,                \* the file contents when the run started
    mods                \* path -> the module importlib loads from that path

vars == <<pc, err, ident, snake, wire, op, func_in_responses, func_in_models,
          template, replace_list, xml_body_lines, ri, fs, fs0, mods>>

-----------------------------------------------------------------------------
(* Bounds of the model *)

MaxIdentLen == 6
MaxInputs == 2
MaxOutputs == 2
MaxNodes == 3
MaxItems == 3

-----------------------------------------------------------------------------
(* Python string primitives *)

Ch(s, i) == SubSeq(s, i, i)

UpperLetters == "ABCDEFGHIJKLMNOPQRSTUVWXYZ"
LowerLetters == "abcdefghijklmnopqrstuvwxyz"
Digits == "0123456789"

CharsOf(s) == {Ch(s, i) : i \in 1..Len(s)}
UpperCase == CharsOf(UpperLetters)
LowerCase == CharsOf(LowerLetters)
DigitChars == CharsOf(Digits)

LetterIndex(alphabet, c) == CHOOSE i \in 1..Len(alphabet) : Ch(alphabet, i) = c

char_lower(c) == IF c \in UpperCase THEN Ch(LowerLetters, LetterIndex(UpperLetters, c)) ELSE c
char_upper(c) == IF c \in LowerCase THEN Ch(UpperLetters, LetterIndex(LowerLetters, c)) ELSE c

RECURSIVE str_lower(_)
str_lower(s) == IF s = "" THEN "" ELSE char_lower(Ch(s, 1)) \o str_lower(SubSeq(s, 2, Len(s)))

RECURSIVE str_upper(_)
str_upper(s) == IF s = "" THEN "" ELSE char_upper(Ch(s, 1)) \o str_upper(SubSeq(s, 2, Len(s)))

\* str.title(): a cased character is uppercased when the previous character is
\* not cased, lowercased otherwise.
RECURSIVE TitleFrom(_, _, _)
TitleFrom(s, i, prevCased) ==
    IF i > Len(s) THEN ""
    ELSE LET c == Ch(s, i)
             cased == c \in UpperCase \cup LowerCase
         IN  (IF ~cased THEN c ELSE IF prevCased THEN char_lower(c) ELSE char_upper(c))
                 \o TitleFrom(s, i + 1, cased)
str_title(s) == TitleFrom(s, 1, FALSE)

\* positions of the separator character in s, and the k-th of them
SepAt(s, sep) == {i \in 1..Len(s) : Ch(s, i) = sep}
NthOf(P, k) == CHOOSE p \in P : Cardinality({q \in P : q < p}) = k - 1

\* str.split(sep) for a one-character separator: the parts, empty ones included.
str_split(s, sep) ==
    LET P == SepAt(s, sep)
        n == Cardinality(P)
    IN  [k \in 1..(n + 1) |->
            SubSeq(s, IF k = 1 THEN 1 ELSE NthOf(P, k - 1) + 1,
                      IF k = n + 1 THEN Len(s) ELSE NthOf(P, k) - 1)]

\* sep.join(parts)
RECURSIVE str_join(_, _)
str_join(sep, parts) ==
    IF parts = <<>> THEN ""
    ELSE IF Len(parts) = 1 THEN parts[1]
    ELSE parts[1] \o sep \o str_join(sep, Tail(parts))

\* s.replace(old, new): every non-overlapping occurrence, left to right.
RECURSIVE ReplaceFrom(_, _, _, _)
ReplaceFrom(s, old, new, i) ==
    IF i > Len(s) THEN ""
    ELSE IF i + Len(old) - 1 <= Len(s) /\ SubSeq(s, i, i + Len(old) - 1) = old
         THEN new \o ReplaceFrom(s, old, new, i + Len(old))
         ELSE Ch(s, i) \o ReplaceFrom(s, old, new, i + 1)
str_replace(s, old, new) == ReplaceFrom(s, old, new, 1)

\* `sub in s`
Contains(s, sub) ==
    \E i \in 1..(Len(s) - Len(sub) + 1) : SubSeq(s, i, i + Len(sub) - 1) = sub

\* positions of the newlines of s
NewlineAt(s) == SepAt(s, "\n")

\* start of the k-th line of s, given the newline positions P
LineStart(P, k) == IF k = 1 THEN 1 ELSE NthOf(P, k - 1) + 1

\* f.readlines(): the lines, each keeping its terminating newline.
readlines(s) ==
    LET P == NewlineAt(s)
        n == Cardinality(P)
        terminated == [k \in 1..n |-> SubSeq(s, LineStart(P, k), NthOf(P, k))]
    IN  IF LineStart(P, n + 1) <= Len(s)
        THEN terminated \o <<SubSeq(s, LineStart(P, n + 1), Len(s))>>
        ELSE terminated

\* s.splitlines(): the lines without their newlines; no empty last line.
splitlines(s) ==
    LET P == NewlineAt(s)
        n == Cardinality(P)
        terminated == [k \in 1..n |-> SubSeq(s, LineStart(P, k), NthOf(P, k) - 1)]
    IN  IF LineStart(P, n + 1) <= Len(s)
        THEN terminated \o <<SubSeq(s, LineStart(P, n + 1), Len(s))>>
        ELSE terminated

\* s[:-1]
DropLastChar(s) == SubSeq(s, 1, Len(s) - 1)

-----------------------------------------------------------------------------
(* Naming normalizer *)

RECURSIVE LowerRunEnd(_, _)
LowerRunEnd(s, j) ==
    IF j < Len(s) /\ Ch(s, j + 1) \in LowerCase THEN LowerRunEnd(s, j + 1) ELSE j

\* re.sub('(.)([A-Z][a-z]+)', r'\1_\2', s)
RECURSIVE SubCapWordFrom(_, _)
SubCapWordFrom(s, i) ==
    IF i > Len(s) THEN ""
    ELSE IF /\ i + 2 <= Len(s)
            /\ Ch(s, i) # "\n"
            /\ Ch(s, i + 1) \in UpperCase
            /\ Ch(s, i + 2) \in LowerCase
         THEN LET e == LowerRunEnd(s, i + 2)
              IN  Ch(s, i) \o "_" \o SubSeq(s, i + 1, e) \o SubCapWordFrom(s, e + 1)
         ELSE Ch(s, i) \o SubCapWordFrom(s, i + 1)
SubCapWord(s) == SubCapWordFrom(s, 1)

\* re.sub('([a-z0-9])([A-Z])', r'\1_\2', s)
RECURSIVE SubLowerUpperFrom(_, _)
SubLowerUpperFrom(s, i) ==
    IF i > Len(s) THEN ""
    ELSE IF /\ i + 1 <= Len(s)
            /\ Ch(s, i) \in LowerCase \cup DigitChars
            /\ Ch(s, i + 1) \in UpperCase
         THEN Ch(s, i) \o "_" \o Ch(s, i + 1) \o SubLowerUpperFrom(s, i + 2)
         ELSE Ch(s, i) \o SubLowerUpperFrom(s, i + 1)
SubLowerUpper(s) == SubLowerUpperFrom(s, 1)

to_snake_case_one_pass(s) == str_lower(SubCapWord(s))
to_snake_case(s) == str_lower(SubLowerUpper(SubCapWord(s)))

RECURSIVE MapTitle(_)
MapTitle(parts) ==
    IF parts = <<>> THEN <<>> ELSE <<str_title(parts[1])>> \o MapTitle(Tail(parts))

to_upper_camel_case(s) == str_join("", MapTitle(str_split(s, "_")))

\* inflection.singularize, as far as the regular plural rule goes: a final
\* "s" is dropped unless the word ends in "ss".
singularize(w) ==
    IF /\ Len(w) >= 2
       /\ Ch(w, Len(w)) \in {"s", "S"}
       /\ Ch(w, Len(w) - 1) \notin {"s", "S"}
    THEN DropLastChar(w) ELSE w

-----------------------------------------------------------------------------
(* The shape model.  A structure's members are an ordered mapping, written as
   the preorder list of its fields: a field's members follow it, one level
   deeper.  A field is [name, type_name, member, depth]; `member` is the
   type_name of a list's element shape. *)

INPUT_IGNORED_IN_BACKEND == {"Marker", "PageSize"}
OUTPUT_IGNORED_IN_BACKEND == {"NextMarker"}

Field(n, t, m, d) == [name |-> n, type_name |-> t, member |-> m, depth |-> d]

\* botocore's shape class of a field
class_name(f) ==
    CASE f.type_name = "string"    -> "StringShape"
      [] f.type_name = "list"      -> "ListShape"
      [] f.type_name = "structure" -> "StructureShape"
      [] OTHER                     -> "Shape"

\* one past the last index of the subtree rooted at i
RECURSIVE SubtreeEnd(_, _, _)
SubtreeEnd(fields, i, j) ==
    IF j > Len(fields) \/ fields[j].depth <= fields[i].depth THEN j
    ELSE SubtreeEnd(fields, i, j + 1)

\* indexes of the members of the field at i (of the top-level fields for i = 0)
RECURSIVE MembersFrom(_, _, _, _)
MembersFrom(fields, d, j, end) ==
    IF j >= end THEN <<>>
    ELSE IF fields[j].depth = d THEN <<j>> \o MembersFrom(fields, d, j + 1, end)
    ELSE MembersFrom(fields, d, j + 1, end)
members(fields, i) ==
    IF i = 0 THEN MembersFrom(fields, 0, 1, Len(fields) + 1)
    ELSE MembersFrom(fields, fields[i].depth + 1, i + 1, SubtreeEnd(fields, i, i + 1))

\* index of the field whose members hold the field at i; 0 at top level
Parent(fields, i) ==
    IF fields[i].depth = 0 THEN 0
    ELSE CHOOSE p \in 1..(i - 1) :
            /\ fields[p].depth = fields[i].depth - 1
            /\ \A q \in (p + 1)..(i - 1) : fields[q].depth > fields[p].depth

RECURSIVE SeqMap(_, _)
SeqMap(F(_), s) == IF s = <<>> THEN <<>> ELSE <<F(s[1])>> \o SeqMap(F, Tail(s))

RECURSIVE SeqFilter(_, _)
SeqFilter(P(_), s) ==
    IF s = <<>> THEN <<>>
    ELSE (IF P(s[1]) THEN <<s[1]>> ELSE <<>>) \o SeqFilter(P, Tail(s))

\* members.keys() of the top-level structure
keys(fields) == LET N(i) == fields[i].name IN SeqMap(N, members(fields, 0))

-----------------------------------------------------------------------------
(* Function body generator *)

input_names_of(o) ==
    LET Kept(n) == n \notin INPUT_IGNORED_IN_BACKEND
    IN  SeqMap(to_snake_case, SeqFilter(Kept, keys(o.inputs)))

output_names_of(o) ==
    LET Kept(n) == n \notin OUTPUT_IGNORED_IN_BACKEND
    IN  SeqMap(to_snake_case, SeqFilter(Kept, keys(o.outputs)))

\* lines 165-172: the extraction statement of one input field
arg_line(f) ==
    IF f.type_name = "integer"
    THEN "    " \o to_snake_case(f.name) \o " = _get_int_param(\"" \o f.name \o "\")\n"
    ELSE IF f.type_name = "list"
    THEN "    " \o to_snake_case(f.name) \o " = self._get_list_prefix(\"" \o f.name \o ".member\")\n"
    ELSE "    " \o to_snake_case(f.name) \o " = self._get_param(\"" \o f.name \o "\")\n"

kwarg_line(n) == "        " \o n \o "=" \o n \o ",\n"
name_eq_name(n) == n \o "=" \o n

\* the loop restricted to the fields outside INPUT_IGNORED_IN_BACKEND
arg_lines_kept_only(o) ==
    LET Kept(i) == o.inputs[i].name \notin INPUT_IGNORED_IN_BACKEND
        L(i) == arg_line(o.inputs[i])
    IN  str_join("", SeqMap(L, SeqFilter(Kept, members(o.inputs, 0))))

\* lines 164-172: the loop runs over inputs.items(), every input field
arg_lines(o) ==
    LET L(i) == arg_line(o.inputs[i]) IN str_join("", SeqMap(L, members(o.inputs, 0)))

get_function_in_responses(o, protocol) ==
    LET input_names  == input_names_of(o)
        output_names == output_names_of(o)
    IN  "def " \o o.operation \o "(self):\n"
        \o arg_lines(o)
        \o (IF output_names # <<>>
            THEN "    " \o str_join(",", output_names) \o " = self." \o o.service
                     \o "_backend." \o o.operation \o "(\n"
            ELSE "    self." \o o.service \o "_backend." \o o.operation \o "(\n")
        \o str_join("", SeqMap(kwarg_line, input_names))
        \o "    )\n"
        \o (IF protocol = "query"
            THEN "    template = self.response_template(" \o str_upper(o.operation)
                     \o "_TEMPLATE)\n"
                 \o "    return template.render("
                     \o str_join(",", SeqMap(name_eq_name, output_names)) \o ")\n"
            ELSE IF protocol = "json"
            THEN "    # TODO: adjust reponse\n"
                 \o "    return json.dumps("
                     \o str_join(",", SeqMap(name_eq_name, output_names)) \o ")\n"
            ELSE "")

get_function_in_models(o) ==
    LET input_names  == input_names_of(o)
        output_names == output_names_of(o)
    IN  (IF input_names # <<>>
         THEN "def " \o o.operation \o "(self, " \o str_join(", ", input_names) \o "):\n"
         ELSE "def {}(self)\n")
        \o "    # implement here\n"
        \o "    return " \o str_join(", ", output_names) \o "\n"

-----------------------------------------------------------------------------
(* Template tree builder *)

Element(tag, text, children) == [tag |-> tag, text |-> text, children |-> children]

Last(s) == s[Len(s)]

\* lines 216-222: the placeholder of a scalar leaf
leaf_text(name, name_prefix) ==
    IF name_prefix # <<>>
    THEN "{{ " \o Last(name_prefix) \o "." \o to_snake_case(name) \o " }}"
    ELSE "{{ " \o to_snake_case(name) \o " }}"

\* line 229: the name context handed to the members of a list
member_prefix(name, name_prefix) == name_prefix \o <<singularize(str_lower(name))>>

\* _get_subtree(name, shape, replace_list, name_prefix) on the field at index i:
\* the element built, the entries appended to replace_list, and the exception
\* raised, if any (ValueError for a shape class it does not handle,
\* AttributeError when a list's element shape has no members).
RECURSIVE _get_subtree(_, _, _)
RECURSIVE SubtreesOf(_, _, _)
_get_subtree(fields, i, name_prefix) ==
    LET f == fields[i]
    IN  IF class_name(f) \in {"StringShape", "Shape"}
        THEN [err |-> "", elem |-> Element(f.name, leaf_text(f.name, name_prefix), <<>>),
              replaced |-> <<>>]
        ELSE IF class_name(f) = "ListShape"
        THEN LET entry == [name |-> f.name, prefix |-> name_prefix]
             IN  IF f.member # "structure"
                 THEN [err |-> "AttributeError", elem |-> Element("", "", <<>>),
                       replaced |-> <<entry>>]
                 ELSE LET sub == SubtreesOf(fields, members(fields, i),
                                            member_prefix(f.name, name_prefix))
                      IN  [err |-> sub.err,
                           elem |-> Element(f.name, "", <<Element("member", "", sub.elems)>>),
                           replaced |-> <<entry>> \o sub.replaced]
        ELSE [err |-> "ValueError", elem |-> Element("", "", <<>>), replaced |-> <<>>]

\* the loop over members.items(): the first exception ends it
SubtreesOf(fields, idxs, name_prefix) ==
    IF idxs = <<>> THEN [err |-> "", elems |-> <<>>, replaced |-> <<>>]
    ELSE LET h == _get_subtree(fields, idxs[1], name_prefix)
         IN  IF h.err # ""
             THEN [err |-> h.err, elems |-> <<>>, replaced |-> h.replaced]
             ELSE LET t == SubtreesOf(fields, Tail(idxs), name_prefix)
                  IN  [err |-> t.err, elems |-> <<h.elem>> \o t.elems,
                       replaced |-> h.replaced \o t.replaced]

\* lines 261-264: every output field goes into the result tree
result_fields_kept_only(outputs) ==
    LET Kept(i) == outputs[i].name \notin OUTPUT_IGNORED_IN_BACKEND
    IN  SeqFilter(Kept, members(outputs, 0))

\* line 263: the loop runs over outputs.items(), every output field
result_fields(outputs) == members(outputs, 0)

\* etree.tostring(t, pretty_print=True): one line per leaf or tag, two spaces
\* of indentation per level
RECURSIVE Spaces(_)
Spaces(n) == IF n = 0 THEN "" ELSE " " \o Spaces(n - 1)

RECURSIVE ElementLines(_, _, _)
RECURSIVE ChildrenLines(_, _)
ElementLines(e, d, attrs) ==
    IF e.children = <<>>
    THEN IF e.text = ""
         THEN <<Spaces(2 * d) \o "<" \o e.tag \o attrs \o "/>">>
         ELSE <<Spaces(2 * d) \o "<" \o e.tag \o attrs \o ">" \o e.text \o "</" \o e.tag \o ">">>
    ELSE <<Spaces(2 * d) \o "<" \o e.tag \o attrs \o ">">>
         \o ChildrenLines(e.children, d + 1)
         \o <<Spaces(2 * d) \o "</" \o e.tag \o ">">>
ChildrenLines(es, d) ==
    IF es = <<>> THEN <<>> ELSE ElementLines(es[1], d, "") \o ChildrenLines(Tail(es), d)

tostring(t_root, xmlns) ==
    str_join("\n", ElementLines(t_root, 0, " xmlns=\"" \o xmlns \o "\"")) \o "\n"

\* lines 241-267: the tree, its replace_list and its serialized lines
build_xml(o) ==
    LET response_wrapper == str_replace(o.result_wrapper, "Result", "Response")
        t_request_id == Element("RequestId", "1549581b-12b7-11e3-895e-1334aEXAMPLE", <<>>)
        t_metadata == Element("ResponseMetadata", "", <<t_request_id>>)
        built == SubtreesOf(o.outputs, result_fields(o.outputs), <<>>)
        t_result == Element(o.result_wrapper, "", built.elems)
        t_root == Element(response_wrapper, "", <<t_metadata, t_result>>)
    IN  [err |-> built.err, replace_list |-> built.replaced,
         xml_body_lines |-> IF built.err # "" THEN <<>>
                            ELSE splitlines(tostring(t_root, o.xml_namespace))]

-----------------------------------------------------------------------------
(* Loop annotator *)

\* [i for i, l in enumerate(lines) if tag in l], 0-based
RECURSIVE IndexesFrom(_, _, _)
IndexesFrom(lines, tag, i) ==
    IF i >= Len(lines) THEN <<>>
    ELSE (IF Contains(lines[i + 1], tag) THEN <<i>> ELSE <<>>) \o IndexesFrom(lines, tag, i + 1)
tag_indexes(lines, tag) == IndexesFrom(lines, tag, 0)

\* list.insert(index, x) for 0 <= index
list_insert(lines, index, x) ==
    LET at == IF index > Len(lines) THEN Len(lines) ELSE index
    IN  SubSeq(lines, 1, at) \o <<x>> \o SubSeq(lines, at + 1, Len(lines))

iter_name_unqualified(replace) == str_lower(replace.name)
iter_name(replace) ==
    IF replace.prefix # <<>>
    THEN Last(replace.prefix) \o "." \o str_lower(replace.name)
    ELSE str_lower(replace.name)

loop_start(replace) ==
    "{% for " \o str_lower(singularize(replace.name)) \o " in " \o iter_name(replace) \o " %}"
loop_end == "{{ endfor }}"

insert_loop_start_before(lines, start_tag_index, replace) ==
    list_insert(lines, start_tag_index, loop_start(replace))
insert_loop_start(lines, start_tag_index, replace) ==
    list_insert(lines, start_tag_index + 1, loop_start(replace))

\* lines 269-289: one pass of the loop body
annotate(lines, replace) ==
    LET start_tag == "<" \o replace.name \o ">"
        end_tag == "</" \o replace.name \o ">"
        start_tag_indexes == tag_indexes(lines, start_tag)
    IN  IF Len(start_tag_indexes) # 1
        THEN [err |-> "tag " \o start_tag \o " not found in response body", lines |-> lines]
        ELSE LET lines1 == insert_loop_start(lines, start_tag_indexes[1], replace)
                 end_tag_indexes == tag_indexes(lines1, end_tag)
             IN  IF Len(end_tag_indexes) # 1
                 THEN [err |-> "tag " \o end_tag \o " not found in response body",
                       lines |-> lines1]
                 ELSE [err |-> "",
                       lines |-> list_insert(lines1, end_tag_indexes[1], loop_end)]

\* lines 290-291
template_body(o, lines) ==
    "\n" \o str_upper(o.operation) \o "_TEMPLATE = \"\"\"" \o str_join("\n", lines) \o "\"\"\""

-----------------------------------------------------------------------------
(* Source locator and splicer.  A loaded module is the list of its class
   members, as inspect.getmembers(mod, inspect.isclass) returns them: the name
   it is bound to, the class, the class's method resolution order, and the
   extent inspect.getsourcelines reports for it (first line, 1-based, and line
   count). *)

issubclass(m, base_class) == \E k \in 1..Len(m.mro) : m.mro[k] = base_class

\* line 301
is_response_cls_any(m, base_class) == issubclass(m, base_class)
is_response_cls(m, base_class) == issubclass(m, base_class) /\ m.cls # base_class

response_classes(mod, base_class) ==
    LET Q(m) == is_response_cls(m, base_class) IN SeqFilter(Q, mod)

\* lines[:n] and lines[n:] for n >= 0
slice_to(lines, n) == SubSeq(lines, 1, IF n > Len(lines) THEN Len(lines) ELSE n)
slice_from(lines, n) == SubSeq(lines, n + 1, Len(lines))

strip_newlines(l) == str_replace(l, "\n", "")
indent_line(l) == Spaces(4) \o l

\* lines 305-306
end_line_no_of(line_no, code_lines_len) == line_no + code_lines_len

\* insert_code_to_class(path, base_class, new_code) on a file holding `content`
\* whose loaded module is `mod`: the exception raised, if any, and the content
\* the file holds afterwards.
insert_code_to_class(content, mod, base_class, new_code) ==
    LET lines == SeqMap(strip_newlines, readlines(content))
        _response_cls == response_classes(mod, base_class)
    IN  IF Len(_response_cls) # 1
        THEN [err |-> "unknown error, number of clsmembers is not 1", content |-> content]
        ELSE LET response_cls == _response_cls[1]
                 end_line_no == end_line_no_of(response_cls.line_no, response_cls.nlines)
                 func_lines == SeqMap(indent_line, splitlines(new_code))
             IN  [err |-> "",
                  content |-> str_join("\n", slice_to(lines, end_line_no) \o func_lines
                                                \o slice_from(lines, end_line_no))]

\* lines 327-331: the template constant is appended to the file
insert_template(content, text) ==
    str_join("\n", SeqMap(DropLastChar, readlines(content)) \o splitlines(text))

responses_path(o) == "moto/" \o o.service \o "/responses.py"
models_path(o) == "moto/" \o o.service \o "/models.py"

-----------------------------------------------------------------------------
(* The order of the statements of insert_query_codes (lines 316-336) and of
   insert_json_codes (lines 338-350); pc names the statement about to run. *)

insert_query_codes_splice_first ==
    <<"get_function_in_responses", "get_function_in_models",
      "insert_code_to_class responses", "get_response_query_template",
      "insert template", "insert_code_to_class models">>

insert_query_codes ==
    <<"get_function_in_responses", "get_function_in_models",
      "get_response_query_template", "insert_code_to_class responses",
      "insert template", "insert_code_to_class models">>

insert_json_codes ==
    <<"get_function_in_responses", "get_function_in_models",
      "insert_code_to_class responses", "insert_code_to_class models">>

statements(protocol) == IF protocol = "query" THEN insert_query_codes ELSE insert_json_codes

after(protocol, stmt) ==
    LET s == statements(protocol)
        i == CHOOSE k \in 1..Len(s) : s[k] = stmt
    IN  IF i = Len(s) THEN "done" ELSE s[i + 1]

-----------------------------------------------------------------------------
(* The steps of a run *)

namingVars == <<ident, snake, wire>>
fileVars   == <<fs, fs0, mods>>

GenerateHandlerStub ==
    /\ pc = "get_function_in_responses"
    /\ func_in_responses' = get_function_in_responses(op, op.protocol)
    /\ pc' = after(op.protocol, pc)
    /\ UNCHANGED <<err, namingVars, op, func_in_models, template, replace_list,
                   xml_body_lines, ri, fileVars>>

GenerateBackendStub ==
    /\ pc = "get_function_in_models"
    /\ func_in_models' = get_function_in_models(op)
    /\ pc' = after(op.protocol, pc)
    /\ UNCHANGED <<err, namingVars, op, func_in_responses, template, replace_list,
                   xml_body_lines, ri, fileVars>>

\* get_response_query_template, lines 241-267
BuildTree ==
    /\ pc = "get_response_query_template"
    /\ LET b == build_xml(op)
       IN  /\ b.err = ""
           /\ replace_list' = b.replace_list
           /\ xml_body_lines' = b.xml_body_lines
    /\ ri' = 0
    /\ pc' = "annotate"
    /\ UNCHANGED <<err, namingVars, op, func_in_responses, func_in_models, template, fileVars>>

BuildTreeFails ==
    /\ pc = "get_response_query_template"
    /\ build_xml(op).err # ""
    /\ err' = build_xml(op).err
    /\ pc' = "aborted"
    /\ UNCHANGED <<namingVars, op, func_in_responses, func_in_models, template,
                   replace_list, xml_body_lines, ri, fileVars>>

\* lines 268-289, one replace_list entry
AnnotateLoop ==
    /\ pc = "annotate" /\ ri < Len(replace_list)
    /\ LET a == annotate(xml_body_lines, replace_list[ri + 1])
       IN  /\ a.err = ""
           /\ xml_body_lines' = a.lines
    /\ ri' = ri + 1
    /\ UNCHANGED <<pc, err, namingVars, op, func_in_responses, func_in_models, template,
                   replace_list, fileVars>>

AnnotateLoopFails ==
    /\ pc = "annotate" /\ ri < Len(replace_list)
    /\ LET a == annotate(xml_body_lines, replace_list[ri + 1])
       IN  /\ a.err # ""
           /\ err' = a.err
           /\ xml_body_lines' = a.lines
    /\ pc' = "aborted"
    /\ UNCHANGED <<namingVars, op, func_in_responses, func_in_models, template,
                   replace_list, ri, fileVars>>

\* lines 290-292
ReturnTemplate ==
    /\ pc = "annotate" /\ ri = Len(replace_list)
    /\ template' = template_body(op, xml_body_lines)
    /\ pc' = after(op.protocol, "get_response_query_template")
    /\ UNCHANGED <<err, namingVars, op, func_in_responses, func_in_models,
                   replace_list, xml_body_lines, ri, fileVars>>

\* insert_code_to_class on the file at `path`, run as statement `stmt`
Splice(stmt, path, base_class, new_code) ==
    /\ pc = stmt
    /\ LET r == insert_code_to_class(fs[path], mods[path], base_class, new_code)
       IN  /\ r.err = ""
           /\ fs' = [fs EXCEPT ![path] = r.content]
    /\ pc' = after(op.protocol, stmt)
    /\ UNCHANGED <<err, namingVars, op, func_in_responses, func_in_models, template,
                   replace_list, xml_body_lines, ri, fs0, mods>>

SpliceFails(stmt, path, base_class, new_code) ==
    /\ pc = stmt
    /\ LET r == insert_code_to_class(fs[path], mods[path], base_class, new_code)
       IN  /\ r.err # ""
           /\ err' = r.err
           /\ fs' = [fs EXCEPT ![path] = r.content]
    /\ pc' = "aborted"
    /\ UNCHANGED <<namingVars, op, func_in_responses, func_in_models, template,
                   replace_list, xml_body_lines, ri, fs0, mods>>

SpliceResponses ==
    Splice("insert_code_to_class responses", responses_path(op), "BaseResponse",
           func_in_responses)
SpliceResponsesFails ==
    SpliceFails("insert_code_to_class responses", responses_path(op), "BaseResponse",
                func_in_responses)
SpliceModels ==
    Splice("insert_code_to_class models", models_path(op), "BaseBackend", func_in_models)
SpliceModelsFails ==
    SpliceFails("insert_code_to_class models", models_path(op), "BaseBackend",
                func_in_models)

InsertTemplate ==
    /\ pc = "insert template"
    /\ fs' = [fs EXCEPT ![responses_path(op)] = insert_template(@, template)]
    /\ pc' = after(op.protocol, pc)
    /\ UNCHANGED <<err, namingVars, op, func_in_responses, func_in_models, template,
                   replace_list, xml_body_lines, ri, fs0, mods>>

-----------------------------------------------------------------------------
(* The inputs of a run *)

NoOp == [service |-> "", operation |-> "", protocol |-> "",
         inputs |-> <<>>, outputs |-> <<>>,
         result_wrapper |-> "", xml_namespace |-> ""]

NamingIdle == ident = "" /\ snake = "" /\ wire = ""
FilesIdle  == fs = <<>> /\ fs0 = <<>> /\ mods = <<>>
NothingGenerated ==
    /\ func_in_responses = "" /\ func_in_models = "" /\ template = ""
    /\ replace_list = <<>> /\ xml_body_lines = <<>> /\ ri = 0

\* Shape models: every preorder field list of at most n fields over the given
\* kinds, nested at most maxDepth deep, the names of the fields of one
\* structure distinct (members is a mapping).
HasMembers(f) == f.type_name = "list" /\ f.member = "structure"

\* the names already used at depth d in the structure a field appended to s
\* at depth d would join
SiblingNames(s, d) ==
    LET start == IF d = 0 THEN 0
                 ELSE CHOOSE p \in 1..Len(s) :
                        /\ s[p].depth = d - 1
                        /\ \A q \in (p + 1)..Len(s) : s[q].depth >= d
    IN  {s[j].name : j \in {q \in (start + 1)..Len(s) : s[q].depth = d}}

Extensions(s, kinds, maxDepth) ==
    LET deepest == IF s = <<>> THEN 0
                   ELSE IF HasMembers(s[Len(s)]) THEN s[Len(s)].depth + 1
                   ELSE s[Len(s)].depth
        top == IF deepest < maxDepth THEN deepest ELSE maxDepth
    IN  {Append(s, Field(x[1].name, x[1].type_name, x[1].member, x[2])) :
            x \in {y \in kinds \X (0..top) : y[1].name \notin SiblingNames(s, y[2])}}

RECURSIVE Shapes(_, _, _)
Shapes(kinds, n, maxDepth) ==
    IF n = 0 THEN {<<>>}
    ELSE LET P == Shapes(kinds, n - 1, maxDepth)
         IN  P \cup UNION {Extensions(s, kinds, maxDepth) : s \in {p \in P : Len(p) = n - 1}}

InputKinds ==
    {Field("Name", "string", "", 0), Field("Count", "integer", "", 0),
     Field("Ids", "list", "string", 0), Field("Marker", "string", "", 0),
     Field("PageSize", "integer", "", 0)}

StubOutputKinds ==
    {Field("Name", "string", "", 0), Field("Items", "list", "structure", 0),
     Field("NextMarker", "string", "", 0)}

TemplateOutputKinds ==
    {Field("Name", "string", "", 0), Field("NextMarker", "string", "", 0),
     Field("Items", "string", "", 0), Field("Config", "structure", "", 0),
     Field("Items", "list", "structure", 0), Field("Outer", "list", "structure", 0),
     Field("Inner", "list", "structure", 0)}

Operation(protocol, inputs, outputs) ==
    [service |-> "svc", operation |-> "list_items", protocol |-> protocol,
     inputs |-> inputs, outputs |-> outputs,
     result_wrapper |-> "ListItemsResult", xml_namespace |-> "http://svc/"]

\* Source files.  A file is laid out as a list of items: a class definition
\* (its base and body lines), a blank line, or a module-level statement.  The
\* k-th class is named K<k>.  A class's base is the marker base type, the class
\* other.Mid (defined elsewhere as a subclass of the marker base type), or object.
ClassBodies == {<<"    pass">>, <<"    a = 1", "", "    b = 2">>}

ClassItem(base, body) == [kind |-> "class", base |-> base, body |-> body]
BlankItem == [kind |-> "blank", base |-> "", body |-> <<>>]
StmtItem  == [kind |-> "stmt", base |-> "", body |-> <<>>]

ItemKinds ==
    {ClassItem(b, body) : b \in {"marker", "mid", "object"}, body \in ClassBodies}
        \cup {BlankItem, StmtItem}

Layouts(n) == UNION {[1..k -> ItemKinds] : k \in 0..n}

Uses(items, base) == \E i \in 1..Len(items) : items[i].kind = "class" /\ items[i].base = base

Prelude(items, marker) ==
    (IF Uses(items, "marker") THEN <<"from moto.core import " \o marker>> ELSE <<>>)
        \o (IF Uses(items, "mid") THEN <<"import other">> ELSE <<>>)

ClassNo(items, i) == Cardinality({j \in 1..i : items[j].kind = "class"})
ClassName(items, i) == "K" \o Ch(Digits, ClassNo(items, i) + 1)

ItemLines(items, i, marker) ==
    LET it == items[i]
    IN  IF it.kind = "class"
        THEN <<"class " \o ClassName(items, i) \o "("
                 \o (CASE it.base = "marker" -> marker
                       [] it.base = "mid"    -> "other.Mid"
                       [] OTHER              -> "object")
                 \o "):">> \o it.body
        ELSE IF it.kind = "blank" THEN <<"">> ELSE <<"X = 1">>

RECURSIVE ItemsLines(_, _, _)
ItemsLines(items, n, marker) ==
    IF n = 0 THEN <<>> ELSE ItemsLines(items, n - 1, marker) \o ItemLines(items, n, marker)

SourceLines(items, marker) == Prelude(items, marker) \o ItemsLines(items, Len(items), marker)

FileContent(items, marker, newline) ==
    LET lines == SourceLines(items, marker)
    IN  str_join("\n", lines) \o (IF newline /\ lines # <<>> THEN "\n" ELSE "")

\* the module importlib loads from the file
ClassMember(items, i, marker) ==
    LET it == items[i]
        name == ClassName(items, i)
    IN  [name |-> name, cls |-> name,
         mro |-> CASE it.base = "marker" -> <<name, marker, "object">>
                   [] it.base = "mid"    -> <<name, "Mid", marker, "object">>
                   [] OTHER              -> <<name, "object">>,
         line_no |-> Len(Prelude(items, marker)) + Len(ItemsLines(items, i - 1, marker)) + 1,
         nlines |-> 1 + Len(it.body)]

LoadedModule(items, marker) ==
    LET IsClass(i) == items[i].kind = "class"
        M(i) == ClassMember(items, i, marker)
    IN  (IF Uses(items, "marker")
         THEN <<[name |-> marker, cls |-> marker, mro |-> <<marker, "object">>,
                 line_no |-> 0, nlines |-> 0]>>
         ELSE <<>>)
        \o SeqMap(M, SeqFilter(IsClass, [i \in 1..Len(items) |-> i]))

NewCodes == {"def f(self):\n    return 1\n", "y = 2"}

-----------------------------------------------------------------------------
(* Specification of the naming normalizer: an identifier is drawn, converted
   to code style and back. *)

IdentChars == {"A", "a", "b", "1"}

RECURSIVE StringsOfLen(_, _)
StringsOfLen(chars, n) ==
    IF n = 0 THEN {""}
    ELSE {s \o c : s \in StringsOfLen(chars, n - 1), c \in chars}

Identifiers == UNION {StringsOfLen(IdentChars, n) : n \in 1..MaxIdentLen}

InitNaming ==
    /\ pc = "to_snake_case" /\ err = ""
    /\ ident \in Identifiers /\ snake = "" /\ wire = ""
    /\ op = NoOp /\ NothingGenerated /\ FilesIdle

ToCodeStyle ==
    /\ pc = "to_snake_case"
    /\ snake' = to_snake_case(ident)
    /\ pc' = "to_upper_camel_case"
    /\ UNCHANGED <<err, ident, wire, op, func_in_responses, func_in_models, template,
                   replace_list, xml_body_lines, ri, fileVars>>

ToWireStyle ==
    /\ pc = "to_upper_camel_case"
    /\ wire' = to_upper_camel_case(snake)
    /\ pc' = "done"
    /\ UNCHANGED <<err, ident, snake, op, func_in_responses, func_in_models, template,
                   replace_list, xml_body_lines, ri, fileVars>>

NextNaming == ToCodeStyle \/ ToWireStyle

SpecNaming == InitNaming /\ [][NextNaming]_vars

-----------------------------------------------------------------------------
(* Specification of the stub generators: an operation is drawn and both stubs
   are generated from it, as insert_query_codes and insert_json_codes do. *)

InitStubs ==
    /\ pc = "get_function_in_responses" /\ err = ""
    /\ NamingIdle /\ FilesIdle /\ NothingGenerated
    /\ \E protocol \in {"query", "json"},
          inputs \in Shapes(InputKinds, MaxInputs, 0),
          outputs \in Shapes(StubOutputKinds, MaxOutputs, 0) :
            op = Operation(protocol, inputs, outputs)

NextStubs == GenerateHandlerStub \/ GenerateBackendStub

SpecStubs == InitStubs /\ [][NextStubs]_vars

-----------------------------------------------------------------------------
(* Specification of the query template generation: the three generator calls
   that open insert_query_codes, on every output shape of at most MaxNodes
   fields. *)

InitTemplate ==
    /\ pc = "get_function_in_responses" /\ err = ""
    /\ NamingIdle /\ FilesIdle /\ NothingGenerated
    /\ \E outputs \in Shapes(TemplateOutputKinds, MaxNodes, MaxNodes) :
            op = Operation("query", <<Field("Name", "string", "", 0)>>, outputs)

NextTemplate ==
    \/ GenerateHandlerStub
    \/ GenerateBackendStub
    \/ BuildTree
    \/ BuildTreeFails
    \/ AnnotateLoop
    \/ AnnotateLoopFails
    \/ ReturnTemplate

SpecTemplate == InitTemplate /\ [][NextTemplate]_vars

-----------------------------------------------------------------------------
(* Specification of the splicer: insert_code_to_class on every responses file
   of at most MaxItems items, with some new code. *)

InitSplice ==
    /\ pc = "insert_code_to_class responses" /\ err = ""
    /\ NamingIdle
    /\ op = Operation("json", <<>>, <<>>)
    /\ func_in_responses \in NewCodes
    /\ func_in_models = "" /\ template = ""
    /\ replace_list = <<>> /\ xml_body_lines = <<>> /\ ri = 0
    /\ \E items \in Layouts(MaxItems), newline \in BOOLEAN :
          /\ fs = (responses_path(op) :> FileContent(items, "BaseResponse", newline))
          /\ mods = (responses_path(op) :> LoadedModule(items, "BaseResponse"))
    /\ fs0 = fs

NextSplice == SpliceResponses \/ SpliceResponsesFails

SpecSplice == InitSplice /\ [][NextSplice]_vars

-----------------------------------------------------------------------------
(* Specification of a whole query-style run: insert_query_codes on a few
   operations and on a few responses and models files. *)

FlowOutputs ==
    {<<Field("Items", "list", "structure", 0), Field("Name", "string", "", 1)>>,
     <<Field("Name", "string", "", 0), Field("Count", "integer", "", 0)>>,
     <<Field("Name", "string", "", 0), Field("Config", "structure", "", 0)>>,
     <<Field("Items", "list", "structure", 0), Field("Items", "string", "", 1)>>,
     <<Field("Tags", "list", "string", 0)>>,
     <<>>}

FlowResponses ==
    {<<ClassItem("marker", <<"    pass">>)>>,
     <<ClassItem("marker", <<"    pass">>), BlankItem, StmtItem>>,
     <<StmtItem, ClassItem("marker", <<"    pass">>), BlankItem>>,
     <<ClassItem("marker", <<"    pass">>), StmtItem, BlankItem>>,
     <<ClassItem("marker", <<"    pass">>), ClassItem("marker", <<"    pass">>)>>,
     <<StmtItem>>}

FlowModels ==
    {<<ClassItem("marker", <<"    pass">>), BlankItem, StmtItem>>,
     <<StmtItem>>}

InitFlow ==
    /\ pc = "get_function_in_responses" /\ err = ""
    /\ NamingIdle /\ NothingGenerated
    /\ \E outputs \in FlowOutputs :
            op = Operation("query", <<Field("Name", "string", "", 0)>>, outputs)
    /\ \E r \in FlowResponses, m \in FlowModels, newline \in BOOLEAN :
          /\ fs = (responses_path(op) :> FileContent(r, "BaseResponse", newline))
                    @@ (models_path(op) :> FileContent(m, "BaseBackend", TRUE))
          /\ mods = (responses_path(op) :> LoadedModule(r, "BaseResponse"))
                    @@ (models_path(op) :> LoadedModule(m, "BaseBackend"))
    /\ fs0 = fs

Next ==
    \/ GenerateHandlerStub
    \/ GenerateBackendStub
    \/ BuildTree
    \/ BuildTreeFails
    \/ AnnotateLoop
    \/ AnnotateLoopFails
    \/ ReturnTemplate
    \/ SpliceResponses
    \/ SpliceResponsesFails
    \/ InsertTemplate
    \/ SpliceModels
    \/ SpliceModelsFails

Spec == InitFlow /\ [][Next]_vars

-----------------------------------------------------------------------------
(* Helpers of the properties *)

\* the lines of a file: what readlines gives, without the newlines
FileLines(content) == SeqMap(strip_newlines, readlines(content))

\* the line sequence a '\n'.join wrote
WrittenLines(content) == IF content = "" THEN <<>> ELSE str_split(content, "\n")

FirstIndex(s, sub) ==
    CHOOSE i \in 1..Len(s) :
        /\ SubSeq(s, i, i + Len(sub) - 1) = sub
        /\ \A j \in 1..(i - 1) : SubSeq(s, j, j + Len(sub) - 1) # sub

StartsWith(s, prefix) == SubSeq(s, 1, Len(prefix)) = prefix

RECURSIVE StripLeft(_)
StripLeft(s) == IF s # "" /\ Ch(s, 1) = " " THEN StripLeft(SubSeq(s, 2, Len(s))) ELSE s

\* the names of a comma-separated list
NameList(s) == IF StripLeft(s) = "" THEN <<>> ELSE SeqMap(StripLeft, str_split(s, ","))

FirstLineWith(lines, sub) ==
    CHOOSE i \in 1..Len(lines) :
        Contains(lines[i], sub) /\ \A j \in 1..(i - 1) : ~Contains(lines[j], sub)

Indexes(s) == [i \in 1..Len(s) |-> i]

\* 1-based index of the only line holding the tag
LineOfTag(lines, tag) == tag_indexes(lines, tag)[1] + 1
OnOneLine(lines, tag) == Len(tag_indexes(lines, tag)) = 1

-----------------------------------------------------------------------------
(* C10 *)

\* The identifier is one or more capitalized words: it starts with an uppercase
\* letter, holds letters only, and every uppercase letter is followed by a
\* lowercase one.
IsCapitalizedWords(s) ==
    /\ Len(s) >= 1
    /\ Ch(s, 1) \in UpperCase
    /\ \A i \in 1..Len(s) : Ch(s, i) \in UpperCase \cup LowerCase
    /\ \A i \in 1..Len(s) : Ch(s, i) \in UpperCase =>
                               i < Len(s) /\ Ch(s, i + 1) \in LowerCase

\* The separator positions the description gives: before s[p] when s[p] is
\* uppercase and either s[p-1] is lowercase or a digit, or s[p-1] is uppercase
\* and s[p] starts a capitalized word.
SeparatorBefore(s, p) ==
    /\ p >= 2 /\ p <= Len(s)
    /\ Ch(s, p) \in UpperCase
    /\ \/ Ch(s, p - 1) \in LowerCase \cup DigitChars
       \/ /\ Ch(s, p - 1) \in UpperCase
          /\ p < Len(s) /\ Ch(s, p + 1) \in LowerCase

RECURSIVE DescribedCodeStyleFrom(_, _)
DescribedCodeStyleFrom(s, p) ==
    IF p > Len(s) THEN ""
    ELSE (IF SeparatorBefore(s, p) THEN "_" ELSE "") \o char_lower(Ch(s, p))
             \o DescribedCodeStyleFrom(s, p + 1)

\* C10: to_upper_camel_case(to_snake_case(x)) = x for every identifier x made of
\* capitalized words without digits, and to_snake_case puts a separator exactly
\* between an uppercase run and a following capitalized word and between a
\* lowercase-or-digit character and a following uppercase letter, then lowercases.
C10_RoundTrip ==
    /\ (pc = "done" /\ IsCapitalizedWords(ident)) => wire = ident
    /\ pc \in {"to_upper_camel_case", "done"} => snake = DescribedCodeStyleFrom(ident, 1)

\* a three-word identifier has gone through both conversions
C10_Witness ==
    /\ pc = "done" /\ IsCapitalizedWords(ident)
    /\ Len(ident) = 6 /\ Len(snake) = 8 /\ wire = ident

-----------------------------------------------------------------------------
(* C7, C9: the stubs *)

ExcludedInputs == {"Marker", "PageSize"}
ContinuationMarker == "NextMarker"

KeptInputFields(o) ==
    LET Kept(f) == f.name \notin ExcludedInputs IN SeqFilter(Kept, o.inputs)
KeptInputNames(o) ==
    LET N(f) == to_snake_case(f.name) IN SeqMap(N, KeptInputFields(o))
KeptOutputNames(o) ==
    LET Kept(n) == n # ContinuationMarker
    IN  SeqMap(to_snake_case, SeqFilter(Kept, keys(o.outputs)))

\* the extraction statement the description gives for a field
DescribedExtraction(f) ==
    "    " \o to_snake_case(f.name) \o " = "
        \o (CASE f.type_name = "integer" -> "_get_int_param(\"" \o f.name
              [] f.type_name = "list"    -> "self._get_list_prefix(\"" \o f.name \o ".member"
              [] OTHER                   -> "self._get_param(\"" \o f.name)
        \o "\")"

HandlerLines == splitlines(func_in_responses)
BackendCallLine == FirstLineWith(HandlerLines, "_backend.")
CallCloseLine == FirstLineWith(HandlerLines, "    )")

\* the statements the handler stub holds between its def line and the backend call
ExtractionStatements == SubSeq(HandlerLines, 2, BackendCallLine - 1)

\* the keyword arguments of the backend call
KeywordArguments == SubSeq(HandlerLines, BackendCallLine + 1, CallCloseLine - 1)

\* the names the backend call's result is assigned to
AssignmentTargets ==
    LET l == HandlerLines[BackendCallLine]
    IN  IF Contains(l, " = ") THEN NameList(SubSeq(l, 1, FirstIndex(l, " = ") - 1)) ELSE <<>>

BackendLines == splitlines(func_in_models)
ReturnedNames ==
    LET l == BackendLines[Len(BackendLines)]
    IN  NameList(SubSeq(l, Len("    return") + 1, Len(l)))

DescribedSignature(o) ==
    LET P(n) == ", " \o n
    IN  "def " \o o.operation \o "(self" \o str_join("", SeqMap(P, KeptInputNames(o))) \o "):"

DescribedKeyword(n) == "        " \o n \o "=" \o n \o ","

\* C7: the handler stub holds one extraction statement for each input field
\* outside {Marker, PageSize}, in shape order, and none for an excluded field;
\* the statement's accessor follows the field kind.
C7_ExtractionPerKeptInput ==
    func_in_responses # "" =>
        ExtractionStatements = SeqMap(DescribedExtraction, KeptInputFields(op))

\* C7, as the code has it: the handler stub holds one extraction statement for
\* every input field, Marker and PageSize included, in shape order, with the
\* accessor following the field kind; the excluded set only limits the keyword
\* arguments of the backend call.
C7_ExtractionPerInput ==
    func_in_responses # "" =>
        /\ ExtractionStatements = SeqMap(DescribedExtraction, op.inputs)
        /\ KeywordArguments = SeqMap(DescribedKeyword, KeptInputNames(op))

\* a handler stub generated for inputs holding an excluded field and a list field
C7_Witness ==
    /\ func_in_responses # ""
    /\ \E i, j \in 1..Len(op.inputs) :
          /\ op.inputs[i].name \in ExcludedInputs
          /\ op.inputs[j].type_name = "list"
          /\ ExtractionStatements[i] = DescribedExtraction(op.inputs[i])

\* C9: the backend stub's signature is the method named after the operation with
\* the kept input names as parameters after self, the handler stub passes the
\* same names in the same order as keyword arguments, and the stub returns the
\* kept output names in the order of the handler's assignment targets.
C9_BackendSignatureMatchesCall ==
    func_in_models # "" =>
        /\ BackendLines[1] = DescribedSignature(op)
        /\ KeywordArguments = SeqMap(DescribedKeyword, KeptInputNames(op))
        /\ ReturnedNames = KeptOutputNames(op)
        /\ ReturnedNames = AssignmentTargets

-----------------------------------------------------------------------------
(* C4, C5, C8: the template *)

IsListField(f) == f.type_name = "list"
ListIndexes(fields) ==
    LET IsList(i) == IsListField(fields[i]) IN SeqFilter(IsList, Indexes(fields))

\* the serialized markup, before any annotation
SerializedMarkup(o) == build_xml(o).xml_body_lines

\* every list field's opening tag and closing tag each occur on one line of the
\* serialized markup
TagsOnOneLine(o) ==
    LET markup == SerializedMarkup(o)
    IN  /\ build_xml(o).err = ""
        /\ \A i \in 1..Len(o.outputs) : IsListField(o.outputs[i]) =>
              /\ OnOneLine(markup, "<" \o o.outputs[i].name \o ">")
              /\ OnOneLine(markup, "</" \o o.outputs[i].name \o ">")

DescribedIterSource(e) ==
    IF e.prefix = <<>> THEN str_lower(e.name)
    ELSE Last(e.prefix) \o "." \o str_lower(e.name)
DescribedLoopOpen(e) ==
    "{% for " \o singularize(str_lower(e.name)) \o " in " \o DescribedIterSource(e) \o " %}"

LineAfterOpenTag(name) ==
    xml_body_lines[LineOfTag(xml_body_lines, "<" \o name \o ">") + 1]
LineBeforeCloseTag(name) ==
    xml_body_lines[LineOfTag(xml_body_lines, "</" \o name \o ">") - 1]

RECURSIVE NameContext(_, _)
NameContext(fields, i) ==
    IF fields[i].depth = 0 THEN <<>>
    ELSE NameContext(fields, Parent(fields, i))
            \o <<singularize(str_lower(fields[Parent(fields, i)].name))>>

DescribedLeafLine(fields, i) ==
    LET f == fields[i]
        ctx == NameContext(fields, i)
    IN  Spaces(4 + 4 * f.depth) \o "<" \o f.name \o ">{{ "
            \o (IF ctx = <<>> THEN "" ELSE Last(ctx) \o ".") \o to_snake_case(f.name)
            \o " }}</" \o f.name \o ">"

\* C5: the replace_list holds the list fields in discovery order, an outer list
\* before the lists inside it, each with the Name Context of its enclosing
\* lists (["outer"] for Inner inside Outer); a nested list iterates over
\* `<enclosing>.<name>`; a scalar leaf inside a list is qualified by the
\* innermost context name and a root-level scalar is unqualified.
C5_NestedNameContext ==
    template # "" =>
        LET f == op.outputs
            L == ListIndexes(f)
        IN  /\ Len(replace_list) = Len(L)
            /\ \A k \in 1..Len(L) :
                  /\ replace_list[k].name = f[L[k]].name
                  /\ replace_list[k].prefix = NameContext(f, L[k])
                  /\ f[L[k]].depth = 1 =>
                        replace_list[k].prefix = <<singularize(str_lower(f[Parent(f, L[k])].name))>>
                  /\ f[L[k]].depth >= 1 =>
                        LineAfterOpenTag(f[L[k]].name) =
                            "{% for " \o singularize(str_lower(f[L[k]].name)) \o " in "
                                \o singularize(str_lower(f[Parent(f, L[k])].name)) \o "."
                                \o str_lower(f[L[k]].name) \o " %}"
            /\ \A i \in 1..Len(f) : ~IsListField(f[i]) =>
                  \E n \in 1..Len(xml_body_lines) : xml_body_lines[n] = DescribedLeafLine(f, i)

\* Inner, a list inside the list Outer, with a scalar leaf of its own
C5_Witness ==
    /\ template # ""
    /\ op.outputs = <<Field("Outer", "list", "structure", 0),
                      Field("Inner", "list", "structure", 1),
                      Field("Name", "string", "", 2)>>
    /\ replace_list = <<[name |-> "Outer", prefix |-> <<>>],
                        [name |-> "Inner", prefix |-> <<"outer">>]>>
    /\ LineAfterOpenTag("Inner") = "{% for inner in outer.inner %}"

\* the names the handler stub passes to template.render
RenderedNames ==
    LET l == HandlerLines[FirstLineWith(HandlerLines, "template.render(")]
        args == NameList(SubSeq(l, FirstIndex(l, "(") + 1, Len(l) - 1))
        N(a) == str_split(a, "=")[1]
    IN  {N(args[k]) : k \in 1..Len(args)}

\* the root-level names the template refers to: unqualified placeholders and
\* unqualified iteration sources
PlaceholderOf(l) == SubSeq(l, FirstIndex(l, "{{ ") + 3, FirstIndex(l, " }}") - 1)
IterSourceOf(l) == SubSeq(l, FirstIndex(l, " in ") + 4, Len(l) - 3)
TemplateRootNames ==
    {PlaceholderOf(xml_body_lines[n]) :
        n \in {m \in 1..Len(xml_body_lines) :
                 /\ Contains(xml_body_lines[m], ">{{ ")
                 /\ ~Contains(PlaceholderOf(xml_body_lines[m]), ".")}}
    \cup
    {IterSourceOf(xml_body_lines[n]) :
        n \in {m \in 1..Len(xml_body_lines) :
                 /\ StartsWith(xml_body_lines[m], "{% for ")
                 /\ ~Contains(IterSourceOf(xml_body_lines[m]), ".")}}

\* the markup nodes directly under the result wrapper
ResultNodeLines ==
    {n \in 1..Len(xml_body_lines) :
        /\ StartsWith(xml_body_lines[n], Spaces(4) \o "<")
        /\ ~StartsWith(xml_body_lines[n], Spaces(4) \o "</")
        /\ n > FirstLineWith(xml_body_lines, "<" \o op.result_wrapper)}

-----------------------------------------------------------------------------
(* C1, C2: the splicer *)

Responses == responses_path(op)
Spliced == pc = after(op.protocol, "insert_code_to_class responses")

\* the classes of the file that name the marker base type as their base
DirectSpecializations(mod, base) ==
    LET D(m) == Len(m.mro) >= 2 /\ m.mro[2] = base IN SeqFilter(D, mod)

\* the class members of the loaded module that are subclasses of the marker
\* base type, directly or through other classes, the base type itself excluded
Specializations(mod, base) ==
    LET Q(m) == m.cls # base /\ \E k \in 1..Len(m.mro) : m.mro[k] = base
    IN  SeqFilter(Q, mod)

\* C1: with exactly one qualifying class, the splice writes the original lines
\* up to and including the class's last line, then the new code's lines
\* indented by four spaces, then the original lines after the class's last line.
C1_InsertedRightAfterClass ==
    LET target == DirectSpecializations(mods[Responses], "BaseResponse")
        orig == FileLines(fs0[Responses])
    IN  (Spliced /\ Len(target) = 1) =>
            LET last == target[1].line_no + target[1].nlines - 1
                Indented(l) == Spaces(4) \o l
            IN  WrittenLines(fs[Responses]) =
                    SubSeq(orig, 1, last)
                        \o SeqMap(Indented, splitlines(func_in_responses))
                        \o SubSeq(orig, last + 1, Len(orig))

\* C2 as stated: with no class, or two or more classes, directly specializing the
\* marker base type the splice fails and leaves the file as it was; it succeeds
\* only with exactly one.
C2_DirectSpecializationsDecide ==
    LET n == Len(DirectSpecializations(mods[Responses], "BaseResponse"))
    IN  /\ n # 1 => ~Spliced
        /\ (n # 1 /\ pc = "aborted") =>
              /\ err = "unknown error, number of clsmembers is not 1"
              /\ fs = fs0

\* C2, amended: the classes counted are the class members of the loaded module
\* that are subclasses of the marker base type, directly or indirectly.
C2_SpecializationsDecide ==
    LET n == Len(Specializations(mods[Responses], "BaseResponse"))
    IN  /\ n # 1 => ~Spliced
        /\ pc = "aborted" =>
              /\ n # 1
              /\ err = "unknown error, number of clsmembers is not 1"
              /\ fs = fs0
        /\ Spliced => n = 1 /\ err = ""

\* the splice has failed on a file with two qualifying classes
C2_Witness ==
    /\ pc = "aborted" /\ fs = fs0
    /\ Len(Specializations(mods[Responses], "BaseResponse")) = 2

-----------------------------------------------------------------------------
(* C3, C6: the query-style run *)

IsTagError(e) == StartsWith(e, "tag ")

\* the responses file right after the handler stub was spliced in
AfterSplice ==
    insert_code_to_class(fs0[Responses], mods[Responses], "BaseResponse",
                         func_in_responses).content

\* C3: the append after the splice is a pure append: the lines the responses
\* file held right after the splice are all still there, unchanged and in
\* order, and the template constant's lines follow them.
C3_TemplateAppendKeepsLines ==
    pc = after("query", "insert template") =>
        FileLines(fs[Responses]) = FileLines(AfterSplice) \o splitlines(template)

\* C6: when the template generation fails with Unsupported-Shape or with
\* Ambiguous-Or-Missing-Tag, nothing has been written: both files hold their
\* content of before the run.
C6_GenerationFailureWritesNothing ==
    (pc = "aborted" /\ (err = "ValueError" \/ IsTagError(err))) => fs = fs0

\* a run has aborted on a list tag found on two lines
C6_Witness ==
    /\ pc = "aborted" /\ IsTagError(err)
    /\ fs = fs0 /\ func_in_responses # "" /\ func_in_models # ""

====
